---------------------------- MODULE Spec2Model ----------------------------
(***************************************************************************)
(* Model of the gopls-backed definition resolver of gemini-tools-utg:      *)
(* GoplsTool (findSymbolPosition, GetCodeDefinitions, initializeWorkspace, *)
(* getDefinitionAtPosition, getCodeAtLocation) as written in main.go, the  *)
(* GoplsClient session / request dispatcher it drives, and the callers of  *)
(* the tools: GeminiClient.GenerateContent, handleFunctionCall and the     *)
(* DirectoryStructureTool.                                                 *)
(*                                                                         *)
(* Text is a sequence of one-character strings, so that strings.Split,     *)
(* strings.Index and strings.Contains are computed, not assumed.           *)
(***************************************************************************)
EXTENDS Integers, Sequences, FiniteSets, TLC

(***************************************************************************)
(* Bounds of the model.                                                    *)
(***************************************************************************)
\* Largest number of lines a generated file content is assembled from.
MaxLines == 2
\* Largest number of symbol names in one GetCodeDefinitions request.
MaxSymbols == 2
\* Largest number of GetCodeDefinitions calls made on one GoplsTool.
MaxCalls == 2
\* Largest request id the dispatcher assigns before the model stops sending.
MaxId == 3
\* Largest number of response frames the subprocess emits.
MaxFrames == 2
\* Largest number of messages written before DidOpen stops being invoked.
MaxWire == 3

(***************************************************************************)
(* Go's strings package, on sequences of characters.                       *)
(***************************************************************************)
NL == "\n"

\* strings.Index(s, p): the index (0-based) of the first instance of p in s,
\* or -1 if p is not present.  Index(s, "") is 0.
Index(s, p) ==
    LET hits == {k \in 0..(Len(s) - Len(p)) : SubSeq(s, k + 1, k + Len(p)) = p}
    IN  IF hits = {} THEN -1
        ELSE CHOOSE k \in hits : \A h \in hits : k <= h

\* strings.Contains(s, p)
Contains(s, p) == Index(s, p) # -1

\* strings.Split(s, "\n"): the pieces between the line breaks; a text without
\* a line break (the empty text included) is its own single piece.
RECURSIVE Split(_)
Split(s) ==
    LET k == Index(s, <<NL>>)
    IN  IF k = -1 THEN <<s>>
        ELSE <<SubSeq(s, 1, k)>> \o Split(SubSeq(s, k + 2, Len(s)))

(***************************************************************************)
(* protocol.Position and the pointer results of the resolver.              *)
(***************************************************************************)
Nil == [nil |-> TRUE]

Position(line, character) == [Line |-> line, Character |-> character]

(***************************************************************************)
(* GoplsTool.findSymbolPosition                                            *)
(***************************************************************************)
\* The seven fmt.Sprintf patterns, in the order of the slice literal.
patterns(symbol) ==
    << <<"f","u","n","c"," ">> \o symbol \o <<"(">>,
       <<"f","u","n","c"," ","(">> \o symbol \o <<")">>,
       <<"t","y","p","e"," ">> \o symbol \o <<" ">>,
       <<"v","a","r"," ">> \o symbol \o <<" ">>,
       <<"c","o","n","s","t"," ">> \o symbol \o <<" ">>,
       symbol \o <<" ",":","=">>,
       symbol \o <<" ","=">> >>

\* The inner loop over the patterns: the index of the first pattern of the
\* slice that occurs in the line, 0 if none does.
firstPattern(line, symbol) ==
    LET ps == patterns(symbol)
        ms == {k \in 1..Len(ps) : Index(line, ps[k]) # -1}
    IN  IF ms = {} THEN 0 ELSE CHOOSE k \in ms : \A m \in ms : k <= m

\* Mutant: the pattern whose match starts leftmost in the line wins.
leftmostColumn(line, symbol) ==
    LET ps == patterns(symbol)
        ms == {k \in 1..Len(ps) : Index(line, ps[k]) # -1}
    IN  IF ms # {}
        THEN LET k == CHOOSE k \in ms :
                        \A m \in ms : Index(line, ps[k]) <= Index(line, ps[m])
             IN  Index(line, ps[k])
        ELSE IF Contains(line, symbol) THEN Index(line, symbol)
        ELSE -1

\* Mutant: only the structural patterns are tried, the plain match is lost.
patternColumnOnly(line, symbol) ==
    LET k == firstPattern(line, symbol)
    IN  IF k # 0 THEN Index(line, patterns(symbol)[k]) ELSE -1

\* One iteration of the loop over the lines: the column returned for this
\* line, or -1 when the loop moves on to the next line.  The patterns are
\* tried first; then, still inside the iteration, the plain occurrence.
lineColumn(line, symbol) ==
    LET k == firstPattern(line, symbol)
    IN  IF k # 0 THEN Index(line, patterns(symbol)[k])
        ELSE IF Contains(line, symbol) THEN Index(line, symbol)
        ELSE -1

\* The loop over the lines, from line number lineNum (0-based) on.
RECURSIVE scanLines(_, _, _)
scanLines(lines, lineNum, symbol) ==
    IF lineNum >= Len(lines) THEN Nil
    ELSE LET c == lineColumn(lines[lineNum + 1], symbol)
         IN  IF c # -1 THEN Position(lineNum, c)
             ELSE scanLines(lines, lineNum + 1, symbol)

findSymbolPosition(fileText, symbol) == scanLines(Split(fileText), 0, symbol)

(***************************************************************************)
(* Inputs of the locator: file contents assembled from source lines, and   *)
(* symbol names.                                                           *)
(***************************************************************************)
Foo == <<"F","o","o">>
Bar == <<"B","a","r">>
Empty == <<>>
\* A name that spans a line break: the end of one line and the start of the
\* next.
Spanning == <<"o", NL, "F">>

SymbolNames == {Foo, Bar, Empty, Spanning}

SourceLines ==
    { <<"f","u","n","c"," ","F","o","o","(",")"," ","{","}">>,
      <<"/","/"," ","F","o","o">>,
      <<"F","o","o"," ","="," ","f","u","n","c"," ","F","o","o","(">>,
      <<"f","u","n","c"," ","(","F","o","o",")"," ","m","(",")">>,
      <<"t","y","p","e"," ","F","o","o"," ","i","n","t">>,
      <<"v","a","r"," ","F","o","o"," ","i","n","t">>,
      <<"c","o","n","s","t"," ","F","o","o"," ","="," ","1">>,
      <<"F","o","o"," ",":","="," ","1">>,
      <<"x","."," ","F","o","o"," ","="," ","v","a","r"," ","F","o","o"," ">>,
      <<"x"," ",":","="," ","1">>,
      <<>> }

\* The lines, each ended by a line break except, when trailing is FALSE,
\* the last one.
RECURSIVE joinLines(_, _)
joinLines(ls, trailing) ==
    IF Len(ls) = 0 THEN <<>>
    ELSE IF Len(ls) = 1 THEN ls[1] \o (IF trailing THEN <<NL>> ELSE <<>>)
    ELSE ls[1] \o <<NL>> \o joinLines(Tail(ls), trailing)

LineLists == UNION {[1..n -> SourceLines] : n \in 0..MaxLines}

Contents == {joinLines(ls, t) : ls \in LineLists, t \in BOOLEAN}

(***************************************************************************)
(* State.                                                                  *)
(***************************************************************************)
VARIABLES
    \* the locator's call: its arguments, its position and its result
    content, symbol, lpc, position,
    \* the GoplsClient session: its lifecycle state
    state,
    \* the file system: the text of the analysed file, or Unreadable
    disk,
    \* GoplsTool.GetCodeDefinitions: where the running call stands, its
    \* symbols argument, the loop index, the text read for didOpen, the text
    \* announced in didOpen, the text read for the lookup, the entries
    \* written to the results builder, the value returned, the number of
    \* calls made, and the log of the operations invoked on the client
    tpc, symbols, idx, openContent, opened, fileContent, report, ret,
    ncalls, calls,
    \* what the latest iteration of the loop got from GoToDefinition
    lastDefinition,
    \* what the handshake with this client has come to: "none", "ok" (an
    \* Initialize has succeeded) or "failed" (an Initialize has failed it)
    handshake,
    \* the request dispatcher: the next id, the pending table, what each
    \* id's waiter was resolved with, how many times it was resolved, the
    \* messages written to the subprocess, the response frames on their way
    \* back, how many were emitted, and the ids of the frames dropped
    nextId, pending, outcome, resolved, wire, inflight, emitted, dropped,
    \* the callers of the session: where each stands, the operation it is
    \* in, the request id it waits on, and what its operation returned
    cpc, cop, cid, cres,
    \* GeminiClient.GenerateContent: where the call stands, the parts of the
    \* first response, the index of the part the loop is at, the number of
    \* GoplsTools created, the deferred Close calls, how many times each tool
    \* was closed, the outcomes of the follow-up model calls, whether the latest
    \* handleFunctionCall succeeded, and what the call returned
    gpc, parts, part, created, deferred, closes, followUps, handled, gret,
    \* the name of the function call being served, and for each GoplsTool
    \* created the name of the function call it was created for
    fname, toolFor,
    \* getCodeAtLocation applied to one location: the location, the position
    \* of the call, the line indexes read and the result
    xloc, xpc, xreads, xres,
    \* handleFunctionCall applied to one function call: the call, the position
    \* of the handler, the tool invocations made and the result
    call, hpc, invoked, hres,
    \* GetDirectoryStructure: the directory tree on disk, the position of the
    \* call, the max_depth argument, the depth used and the lines printed
    fs, wpc, depthArg, maxDepth, listing

locVars == <<content, symbol, lpc, position>>
toolVars == <<disk, tpc, symbols, idx, openContent, opened, fileContent,
              report, ret, ncalls, calls, handshake, lastDefinition>>
dispVars == <<nextId, pending, outcome, resolved, wire, inflight, emitted,
              dropped>>
callerVars == <<cpc, cop, cid, cres>>
sessVars == <<dispVars, callerVars>>
genVars == <<gpc, parts, part, created, deferred, closes, followUps, handled,
             gret, fname, toolFor>>
exVars == <<xloc, xpc, xreads, xres>>
handleVars == <<call, hpc, invoked, hres>>
walkVars == <<fs, wpc, depthArg, maxDepth, listing>>
restVars == <<genVars, exVars, handleVars, walkVars>>
vars == <<locVars, state, toolVars, sessVars, restVars>>

(***************************************************************************)
(* The GoplsClient as GoplsTool sees it: each operation a synchronous call *)
(* that returns a result or an error and may move the session's state.     *)
(***************************************************************************)
NoError == "none"

\* The flag initializeWorkspace reads: the handshake has completed.
initialized(st) == st = "Ready"

\* GoplsClient.Initialize: the outcomes of one call in session state st.
InitializeOutcomes(st) ==
    IF st \in {"Closing", "Closed"} THEN {[err |-> "ClosedError", state |-> st]}
    ELSE IF st = "Ready" THEN {[err |-> "AlreadyInitializedError", state |-> st]}
    ELSE { [err |-> NoError, state |-> "Ready"],
           [err |-> "HandshakeError", state |-> "Closed"] }

\* GoplsClient.DidOpen: a notification; it fails only when the session is
\* not Ready or the transport is broken.
DidOpenOutcomes(st) ==
    IF st \in {"Closing", "Closed"} THEN {[err |-> "ClosedError", state |-> st]}
    ELSE IF st # "Ready" THEN {[err |-> "NotReadyError", state |-> st]}
    ELSE { [err |-> NoError, state |-> "Ready"],
           [err |-> "IOError", state |-> "Closed"] }

\* protocol.Location values gopls answers with: a URI and the lines of the
\* range (positions are zero-based and not negative, the end is not before
\* the start).
FileURI == "file:///a.go"
OtherURI == "file:///gone.go"
Location(uri, startLine, endLine) ==
    [URI |-> uri,
     Range |-> [Start |-> Position(startLine, 0), End |-> Position(endLine, 0)]]
Locations ==
    { Location(FileURI, 0, 1), Location(FileURI, 1, 5),
      Location(FileURI, 4, 4), Location(OtherURI, 0, 0) }
LocationLists ==
    {<<>>} \cup {<<l>> : l \in Locations}
        \cup {<<Location(FileURI, 0, 1), Location(FileURI, 1, 5)>>}

\* GoplsClient.GoToDefinition: the decoded result list, or an error.
GoToDefinitionOutcomes(st) ==
    IF st \in {"Closing", "Closed"}
    THEN {[err |-> "ClosedError", state |-> st, locations |-> <<>>]}
    ELSE IF st # "Ready"
    THEN {[err |-> "NotReadyError", state |-> st, locations |-> <<>>]}
    ELSE {[err |-> NoError, state |-> "Ready", locations |-> ls] :
             ls \in LocationLists}
         \cup { [err |-> "TimeoutError", state |-> "Ready", locations |-> <<>>],
                [err |-> "IOError", state |-> "Closed", locations |-> <<>>] }

(***************************************************************************)
(* The file system.                                                        *)
(***************************************************************************)
\* The result of os.ReadFile: the text, or an error.
FileOf(text) == [ok |-> TRUE, text |-> text]
Unreadable == [ok |-> FALSE, text |-> <<>>]

\* The texts the analysed file holds over time.
FileTexts ==
    { joinLines(<< <<"/","/"," ","F","o","o">>,
                   <<"f","u","n","c"," ","F","o","o","(",")"," ","{","}">> >>, TRUE),
      joinLines(<< <<"x"," ",":","="," ","1">>,
                   <<"t","y","p","e"," ","F","o","o"," ","i","n","t">> >>, FALSE) }

DiskStates == {FileOf(t) : t \in FileTexts} \cup {Unreadable}

\* os.ReadFile(path) of the file a URI names.
ReadFile(uri) == IF uri = FileURI THEN disk ELSE Unreadable

(***************************************************************************)
(* GoplsTool.getDefinitionAtPosition and getCodeAtLocation                 *)
(***************************************************************************)
\* Mutant: the last location of the list is taken.
getDefinitionAtPositionLast(o) ==
    IF o.err # NoError THEN [err |-> o.err, location |-> Nil]
    ELSE IF Len(o.locations) = 0
    THEN [err |-> "no definition found", location |-> Nil]
    ELSE [err |-> NoError, location |-> o.locations[Len(o.locations)]]

\* The result of GoToDefinition as getDefinitionAtPosition returns it: the
\* client's error, "no definition found" for an empty list, else the first
\* location.
getDefinitionAtPosition(o) ==
    IF o.err # NoError THEN [err |-> o.err, location |-> Nil]
    ELSE IF Len(o.locations) = 0
    THEN [err |-> "no definition found", location |-> Nil]
    ELSE [err |-> NoError, location |-> o.locations[1]]

\* The lines lo..hi (0-based, inclusive) joined by line breaks.
RECURSIVE extractLines(_, _, _)
extractLines(lines, lo, hi) ==
    IF lo > hi THEN <<>>
    ELSE lines[lo + 1] \o (IF lo < hi THEN <<NL>> ELSE <<>>)
            \o extractLines(lines, lo + 1, hi)

\* endLine as the extraction loop uses it: cut to the last line of the file.
clampedEnd(n, endLine) == IF endLine >= n THEN n - 1 ELSE endLine

\* The indexes i at which the extraction loop evaluates lines[i] in a file
\* of n lines: each i from startLine to the cut endLine that passes the
\* test i < len(lines); the first index below 0 panics and ends the loop.
lineReads(n, startLine, endLine) ==
    IF startLine >= n THEN {}
    ELSE LET hi == clampedEnd(n, endLine)
         IN  IF startLine < 0 /\ startLine <= hi THEN {startLine}
             ELSE {i \in startLine..hi : i < n}

getCodeAtLocation(location) ==
    LET file == ReadFile(location.URI)
    IN  IF ~file.ok THEN [err |-> "read error", code |-> <<>>]
        ELSE LET lines == Split(file.text)
                 startLine == location.Range.Start.Line
                 endLine == clampedEnd(Len(lines), location.Range.End.Line)
             IN  IF startLine >= Len(lines)
                 THEN [err |-> "start line out of bounds", code |-> <<>>]
                 ELSE IF \E i \in lineReads(Len(lines), startLine, endLine) : i < 0
                 THEN [err |-> "panic: index out of range", code |-> <<>>]
                 ELSE [err |-> NoError,
                       code |-> extractLines(lines, startLine, endLine)]

(***************************************************************************)
(* The parts of the state as they are when nothing has run yet.            *)
(***************************************************************************)
Callers == {"c1", "c2"}
Ids == 1..MaxId

SessIdle ==
    /\ nextId = 1
    /\ pending = {}
    /\ outcome = [i \in Ids |-> "unused"]
    /\ resolved = [i \in Ids |-> 0]
    /\ wire = <<>>
    /\ inflight = {}
    /\ emitted = 0
    /\ dropped = {}
    /\ cpc = [c \in Callers |-> "idle"]
    /\ cop = [c \in Callers |-> "none"]
    /\ cid = [c \in Callers |-> 0]
    /\ cres = [c \in Callers |-> "none"]

LocIdle ==
    /\ content = <<>>
    /\ symbol = <<>>
    /\ lpc = "done"
    /\ position = Nil

\* No definition request was made in the latest iteration of the loop.
NoDefinition == [asked |-> FALSE, err |-> NoError, locations |-> <<>>]

ToolIdle ==
    /\ tpc = "idle"
    /\ symbols = <<>>
    /\ idx = 1
    /\ openContent = <<>>
    /\ opened = <<>>
    /\ fileContent = <<>>
    /\ report = <<>>
    /\ ret = "none"
    /\ ncalls = 0
    /\ calls = <<>>
    /\ handshake = "none"
    /\ lastDefinition = NoDefinition

GenIdle ==
    /\ gpc = "idle"
    /\ parts = <<>>
    /\ part = 1
    /\ created = 0
    /\ deferred = <<>>
    /\ closes = <<>>
    /\ followUps = <<>>
    /\ handled = "none"
    /\ gret = Nil
    /\ fname = "none"
    /\ toolFor = <<>>

ExIdle ==
    /\ xloc = Nil
    /\ xpc = "done"
    /\ xreads = {}
    /\ xres = Nil

HandleIdle ==
    /\ call = Nil
    /\ hpc = "done"
    /\ invoked = <<>>
    /\ hres = Nil

WalkIdle ==
    /\ fs = {}
    /\ wpc = "done"
    /\ depthArg = Nil
    /\ maxDepth = 0
    /\ listing = <<>>

RestIdle ==
    /\ GenIdle
    /\ ExIdle
    /\ HandleIdle
    /\ WalkIdle

(***************************************************************************)
(* GoplsTool.GetCodeDefinitions and initializeWorkspace                    *)
(***************************************************************************)
SymbolLists == UNION {[1..n -> {Foo, Bar}] : n \in 0..MaxSymbols}

ToolInit ==
    /\ disk \in {FileOf(t) : t \in FileTexts}
    /\ ToolIdle
    /\ SessIdle
    /\ LocIdle
    /\ RestIdle
    /\ state = "Uninitialized"

\* An operation invoked on the client, as the log of the call keeps it:
\* the operation, its error, and what the handshake had come to before.
Invoked(op, o) == [op |-> op, err |-> o.err, was |-> handshake]

\* What the handshake has come to after Initialize returned o.
handshakeAfter(o) ==
    IF o.err = NoError THEN "ok"
    ELSE IF o.err = "HandshakeError" THEN "failed"
    ELSE handshake

\* The locals of a call that has returned are gone.
Leave ==
    /\ tpc' = "idle"
    /\ idx' = 1
    /\ openContent' = <<>>
    /\ opened' = <<>>
    /\ fileContent' = <<>>
    /\ lastDefinition' = NoDefinition

\* return "", fmt.Errorf(...): the call ends with an error.
Fail(why) ==
    /\ Leave
    /\ ret' = why
    /\ report' = <<>>

\* A caller invokes GetCodeDefinitions(filePath, syms).
Call ==
    /\ tpc = "idle"
    /\ ncalls < MaxCalls
    /\ \E syms \in SymbolLists : symbols' = syms
    /\ ncalls' = ncalls + 1
    /\ tpc' = "initialize"
    /\ report' = <<>>
    /\ ret' = "running"
    /\ calls' = <<>>
    /\ UNCHANGED <<locVars, state, disk, idx, openContent, opened, fileContent,
                   handshake, lastDefinition>>

\* Mutant: the error of Initialize is dropped and the call carries on.
initializeFailedIgnored(o) == FALSE

\* initializeWorkspace: the check of Initialize's error.
initializeFailed(o) == o.err # NoError

\* initializeWorkspace: gopls is initialized if that was not already done.
needsInitialize(st) == ~initialized(st)

StepInitialize ==
    /\ tpc = "initialize"
    /\ IF needsInitialize(state)
       THEN \E o \in InitializeOutcomes(state) :
              /\ state' = o.state
              /\ calls' = Append(calls, Invoked("Initialize", o))
              /\ handshake' = handshakeAfter(o)
              /\ IF initializeFailed(o)
                 THEN Fail("failed to initialize workspace")
                 ELSE /\ tpc' = "readOpen"
                      /\ UNCHANGED <<ret, report, idx, openContent, opened,
                                     fileContent, lastDefinition>>
       ELSE /\ tpc' = "readOpen"
            /\ UNCHANGED <<state, calls, handshake, ret, report, idx,
                           openContent, opened, fileContent, lastDefinition>>
    /\ UNCHANGED <<locVars, disk, symbols, ncalls>>

\* initializeWorkspace: the file is read for DidOpen.
StepReadOpen ==
    /\ tpc = "readOpen"
    /\ IF ~disk.ok
       THEN Fail("failed to initialize workspace")
       ELSE /\ openContent' = disk.text
            /\ tpc' = "didOpen"
            /\ UNCHANGED <<ret, report, idx, opened, fileContent,
                           lastDefinition>>
    /\ UNCHANGED <<locVars, state, disk, symbols, ncalls, calls, handshake>>

\* initializeWorkspace: the check of DidOpen's error.
didOpenFailed(o) == o.err # NoError

\* initializeWorkspace: the document is opened in gopls.
StepDidOpen ==
    /\ tpc = "didOpen"
    /\ \E o \in DidOpenOutcomes(state) :
         /\ state' = o.state
         /\ calls' = Append(calls, Invoked("DidOpen", o))
         /\ IF didOpenFailed(o)
            THEN Fail("failed to initialize workspace")
            ELSE /\ opened' = openContent
                 /\ tpc' = "readFile"
                 /\ UNCHANGED <<ret, report, idx, openContent, fileContent,
                                lastDefinition>>
    /\ UNCHANGED <<locVars, disk, symbols, ncalls, handshake>>

\* GetCodeDefinitions: the file is read to find the symbol positions.
StepReadFile ==
    /\ tpc = "readFile"
    /\ IF ~disk.ok
       THEN Fail("failed to read file")
       ELSE /\ fileContent' = disk.text
            /\ tpc' = "loop"
            /\ UNCHANGED <<ret, report, idx, openContent, opened,
                           lastDefinition>>
    /\ UNCHANGED <<locVars, state, disk, symbols, ncalls, calls, handshake>>

\* The entries written to the results builder.
NotFoundEntry(sym) == [kind |-> "NotFound", symbol |-> sym]
ErrorEntry(sym, err) == [kind |-> "Error", symbol |-> sym, err |-> err]
BlockEntry(sym, location) ==
    LET c == getCodeAtLocation(location)
    IN  [kind |-> "Block", symbol |-> sym, uri |-> location.URI,
         line |-> location.Range.Start.Line + 1,
         character |-> location.Range.Start.Character + 1,
         hasCode |-> (c.err = NoError /\ c.code # <<>>),
         code |-> IF c.err = NoError THEN c.code ELSE <<>>]

\* What GoToDefinition answered in an iteration of the loop.
GotDefinition(o) == [asked |-> TRUE, err |-> o.err, locations |-> o.locations]

\* Mutant: a symbol whose lookup fails ends the loop.
afterEntryBreak(entry, i, n) == IF entry.kind = "Block" THEN i + 1 ELSE n + 1

\* The loop index after an iteration that wrote entry: `continue` and the
\* end of the loop body alike go on to the next symbol.
afterEntry(entry, i, n) == i + 1

\* GetCodeDefinitions: one iteration of the loop over the symbols.
StepSymbol ==
    /\ tpc = "loop"
    /\ idx <= Len(symbols)
    /\ LET sym == symbols[idx]
           pos == findSymbolPosition(fileContent, sym)
       IN  IF pos = Nil
           THEN /\ report' = Append(report, NotFoundEntry(sym))
                /\ idx' = afterEntry(NotFoundEntry(sym), idx, Len(symbols))
                /\ lastDefinition' = NoDefinition
                /\ UNCHANGED <<state, calls>>
           ELSE \E o \in GoToDefinitionOutcomes(state) :
                  LET d == getDefinitionAtPosition(o)
                      entry == IF d.err # NoError THEN ErrorEntry(sym, d.err)
                               ELSE BlockEntry(sym, d.location)
                  IN  /\ state' = o.state
                      /\ calls' = Append(calls, Invoked("GoToDefinition", o))
                      /\ report' = Append(report, entry)
                      /\ idx' = afterEntry(entry, idx, Len(symbols))
                      /\ lastDefinition' = GotDefinition(o)
    /\ UNCHANGED <<locVars, disk, tpc, symbols, openContent, opened,
                   fileContent, ret, ncalls, handshake>>

\* GetCodeDefinitions: the loop is over and the report is returned.
Return ==
    /\ tpc = "loop"
    /\ idx > Len(symbols)
    /\ Leave
    /\ ret' = "ok"
    /\ UNCHANGED <<locVars, state, disk, symbols, report, ncalls, calls,
                   handshake>>

\* Another process rewrites or removes the file while a call is running
\* (the file is observed by the reads of a running call only).
DiskChange ==
    /\ tpc # "idle"
    /\ \E d \in DiskStates \ {disk} : disk' = d
    /\ UNCHANGED <<locVars, state, tpc, symbols, idx, openContent, opened,
                   fileContent, report, ret, ncalls, calls, handshake,
                   lastDefinition>>

ToolNext ==
    \/ Call
    \/ StepInitialize
    \/ StepReadOpen
    \/ StepDidOpen
    \/ StepReadFile
    \/ StepSymbol
    \/ Return
    \/ DiskChange

Spec == ToolInit /\ [][ToolNext /\ UNCHANGED <<sessVars, restVars>>]_vars

(***************************************************************************)
(* The request dispatcher and the session of the GoplsClient.              *)
(***************************************************************************)
\* The messages on the wire.
Request(id, method) == [kind |-> "request", id |-> id, method |-> method]
Notification(method) == [kind |-> "notification", id |-> 0, method |-> method]

\* Mutant: the smallest id that is free in the pending table is taken.
reusedRequestId(next, pend) ==
    CHOOSE i \in 1..(MaxId + 1) : i \notin pend /\ \A j \in 1..(i - 1) : j \in pend

\* Send: the id of the next request.
nextRequestId(next, pend) == next

\* Mutant: the entry of a resolved waiter stays in the pending table.
afterResolveKept(pend, id) == pend

\* The pending table after the waiter of id was resolved.
afterResolve(pend, id) == pend \ {id}

\* Send(method) by caller c: under the dispatcher's lock the next id is
\* assigned, the waiter registered and the request written; the caller then
\* blocks on its waiter.
Send(c, method) ==
    /\ nextId <= MaxId
    /\ LET id == nextRequestId(nextId, pending)
       IN  /\ pending' = pending \cup {id}
           /\ outcome' = [outcome EXCEPT ![id] = "waiting"]
           /\ wire' = Append(wire, Request(id, method))
           /\ cid' = [cid EXCEPT ![c] = id]
    /\ nextId' = nextId + 1
    /\ cpc' = [cpc EXCEPT ![c] = "waiting"]
    /\ cop' = [cop EXCEPT ![c] = method]
    /\ UNCHANGED <<resolved, inflight, emitted, dropped, cres>>

\* Notify(method): a message without id and without pending registration.
Notify(method) == wire' = Append(wire, Notification(method))

\* The waiter of id is resolved with how, and its entry removed.
Resolve(id, how) ==
    /\ pending' = afterResolve(pending, id)
    /\ outcome' = [outcome EXCEPT ![id] = how]
    /\ resolved' = [resolved EXCEPT ![id] = @ + 1]

\* CancelAll(error): every waiter still pending is resolved with the error
\* and the table cleared.
CancelAll ==
    /\ pending' = {}
    /\ outcome' = [i \in Ids |-> IF i \in pending THEN "cancelled" ELSE outcome[i]]
    /\ resolved' = [i \in Ids |-> IF i \in pending THEN resolved[i] + 1
                                  ELSE resolved[i]]

\* The operation of caller c returns err without blocking.
Returns(c, op, err) ==
    /\ cpc' = [cpc EXCEPT ![c] = "returned"]
    /\ cop' = [cop EXCEPT ![c] = op]
    /\ cres' = [cres EXCEPT ![c] = err]
    /\ UNCHANGED cid

\* Mutant: only an Uninitialized session counts as not ready.
notReadyUninitializedOnly(st) == st = "Uninitialized"

\* The handshake has not completed.
notReady(st) == st \in {"Uninitialized", "Initializing"}

\* Mutant: only a session that has finished closing refuses operations.
closedOnly(st) == st = "Closed"

\* Close has been called, or the subprocess is gone.
closed(st) == st \in {"Closing", "Closed"}

\* Mutant: a request that timed out is reported like one cancelled at close.
sendErrorTimeoutAsClosed(how) ==
    CASE how = "response" -> NoError
      [] how = "error" -> "DefinitionError"
      [] OTHER -> "ClosedError"

\* What Send returns to the caller of a definition request whose waiter was
\* resolved with how.
sendError(how) ==
    CASE how = "response" -> NoError
      [] how = "error" -> "DefinitionError"
      [] how = "timeout" -> "TimeoutError"
      [] OTHER -> "ClosedError"

\* Session.Initialize
InvokeInitialize(c) ==
    /\ cpc[c] = "idle"
    /\ IF closed(state)
       THEN Returns(c, "initialize", "ClosedError") /\ UNCHANGED <<state, dispVars>>
       ELSE IF state # "Uninitialized"
       THEN Returns(c, "initialize", "AlreadyInitializedError")
            /\ UNCHANGED <<state, dispVars>>
       ELSE state' = "Initializing" /\ Send(c, "initialize")
    /\ UNCHANGED <<locVars, toolVars>>

\* Session.DidOpen
InvokeDidOpen(c) ==
    /\ cpc[c] = "idle"
    /\ Len(wire) < MaxWire
    /\ IF closed(state)
       THEN Returns(c, "didOpen", "ClosedError") /\ UNCHANGED dispVars
       ELSE IF notReady(state)
       THEN Returns(c, "didOpen", "NotReadyError") /\ UNCHANGED dispVars
       ELSE /\ Notify("didOpen")
            /\ Returns(c, "didOpen", NoError)
            /\ UNCHANGED <<nextId, pending, outcome, resolved, inflight,
                           emitted, dropped>>
    /\ UNCHANGED <<locVars, toolVars, state>>

\* Session.Definition
InvokeDefinition(c) ==
    /\ cpc[c] = "idle"
    /\ IF closed(state)
       THEN Returns(c, "definition", "ClosedError") /\ UNCHANGED dispVars
       ELSE IF notReady(state)
       THEN Returns(c, "definition", "NotReadyError") /\ UNCHANGED dispVars
       ELSE Send(c, "definition")
    /\ UNCHANGED <<locVars, toolVars, state>>

\* Session.Close: a no-op on a session that is closing or closed; a session
\* that never sent initialize has nothing to shut down; otherwise the
\* shutdown request is sent first.
InvokeClose(c) ==
    /\ cpc[c] = "idle"
    /\ IF closed(state)
       THEN Returns(c, "close", NoError) /\ UNCHANGED <<state, dispVars>>
       ELSE IF state = "Uninitialized"
       THEN /\ state' = "Closed"
            /\ CancelAll
            /\ Returns(c, "close", NoError)
            /\ UNCHANGED <<nextId, wire, inflight, emitted, dropped>>
       ELSE state' = "Closing" /\ Send(c, "shutdown")
    /\ UNCHANGED <<locVars, toolVars>>

\* The waiter a blocked caller waits on has been resolved: its operation
\* goes on and returns.
Complete(c) ==
    /\ cpc[c] = "waiting"
    /\ outcome[cid[c]] # "waiting"
    /\ LET how == outcome[cid[c]]
       IN  CASE cop[c] = "initialize" ->
                  IF closed(state)
                  THEN /\ Returns(c, "initialize", "ClosedError")
                       /\ UNCHANGED <<state, dispVars>>
                  ELSE IF how = "response"
                  THEN /\ Notify("initialized")
                       /\ state' = "Ready"
                       /\ Returns(c, "initialize", NoError)
                       /\ UNCHANGED <<nextId, pending, outcome, resolved,
                                      inflight, emitted, dropped>>
                  ELSE /\ state' = "Closed"
                       /\ CancelAll
                       /\ Returns(c, "initialize", "HandshakeError")
                       /\ UNCHANGED <<nextId, wire, inflight, emitted, dropped>>
             [] cop[c] = "definition" ->
                  /\ Returns(c, "definition", sendError(how))
                  /\ UNCHANGED <<state, dispVars>>
             [] OTHER ->
                  IF state = "Closed"
                  THEN /\ Returns(c, "close", NoError)
                       /\ UNCHANGED <<state, dispVars>>
                  ELSE /\ Notify("exit")
                       /\ CancelAll
                       /\ state' = "Closed"
                       /\ Returns(c, "close", NoError)
                       /\ UNCHANGED <<nextId, inflight, emitted, dropped>>
    /\ UNCHANGED <<locVars, toolVars>>

\* The caller takes the result and is free for its next operation.
Resume(c) ==
    /\ cpc[c] = "returned"
    /\ cpc' = [cpc EXCEPT ![c] = "idle"]
    /\ cop' = [cop EXCEPT ![c] = "none"]
    /\ cres' = [cres EXCEPT ![c] = "none"]
    /\ cid' = [cid EXCEPT ![c] = 0]
    /\ UNCHANGED <<locVars, toolVars, state, dispVars>>

\* The subprocess writes a response frame: for a request it was sent, once
\* or again, or for id 0, which no request ever had.  The read-loop decodes
\* the frames in the order they were written, so the next frame is written
\* here once the one before has been decoded.
Emit ==
    /\ emitted < MaxFrames
    /\ state # "Closed"
    /\ inflight = {}
    /\ \E id \in 0..(nextId - 1), err \in BOOLEAN :
          inflight' = {[id |-> id, err |-> err]}
    /\ emitted' = emitted + 1
    /\ UNCHANGED <<locVars, toolVars, state, callerVars, nextId, pending,
                   outcome, resolved, wire, dropped>>

\* The read-loop decodes one frame: a frame whose id has a pending waiter
\* resolves it; any other frame is logged and dropped.
ReadLoop ==
    /\ state # "Closed"
    /\ \E f \in inflight :
          /\ inflight' = inflight \ {f}
          /\ IF f.id \in pending
             THEN /\ Resolve(f.id, IF f.err THEN "error" ELSE "response")
                  /\ UNCHANGED dropped
             ELSE /\ dropped' = dropped \cup {f.id}
                  /\ UNCHANGED <<pending, outcome, resolved>>
    /\ UNCHANGED <<locVars, toolVars, state, callerVars, nextId, wire, emitted>>

\* The timeout of a pending request fires.
Timeout ==
    /\ \E id \in pending : Resolve(id, "timeout")
    /\ UNCHANGED <<locVars, toolVars, state, callerVars, nextId, wire,
                   inflight, emitted, dropped>>

\* The subprocess exits: every pending waiter is resolved with the
\* process-terminated error and the session is Closed.
Crash ==
    /\ state # "Closed"
    /\ state' = "Closed"
    /\ CancelAll
    /\ UNCHANGED <<locVars, toolVars, callerVars, nextId, wire, inflight,
                   emitted, dropped>>

SessInit ==
    /\ SessIdle
    /\ disk = Unreadable
    /\ ToolIdle
    /\ LocIdle
    /\ RestIdle
    /\ state = "Uninitialized"

SessNext ==
    \/ \E c \in Callers : InvokeInitialize(c)
    \/ \E c \in Callers : InvokeDidOpen(c)
    \/ \E c \in Callers : InvokeDefinition(c)
    \/ \E c \in Callers : InvokeClose(c)
    \/ \E c \in Callers : Complete(c)
    \/ \E c \in Callers : Resume(c)
    \/ Emit
    \/ ReadLoop
    \/ Timeout
    \/ Crash

SpecSession == SessInit /\ [][SessNext /\ UNCHANGED restVars]_vars

\* The session with its scheduling: the timer of a pending request fires,
\* and a caller whose waiter was resolved runs on.
SpecSessionLive ==
    /\ SpecSession
    /\ WF_vars(Timeout /\ UNCHANGED restVars)
    /\ WF_vars(Complete("c1") /\ UNCHANGED restVars)
    /\ WF_vars(Complete("c2") /\ UNCHANGED restVars)

(***************************************************************************)
(* The locator applied to one content and one symbol name.                 *)
(***************************************************************************)
LocInit ==
    /\ content \in Contents
    /\ symbol \in SymbolNames
    /\ lpc = "call"
    /\ position = Nil
    /\ disk = Unreadable
    /\ ToolIdle
    /\ SessIdle
    /\ RestIdle
    /\ state = "Uninitialized"

Locate ==
    /\ lpc = "call"
    /\ position' = findSymbolPosition(content, symbol)
    /\ lpc' = "done"
    /\ UNCHANGED <<content, symbol, state, toolVars, sessVars>>

LocNext == Locate

SpecLocate == LocInit /\ [][LocNext /\ UNCHANGED restVars]_vars

(***************************************************************************)
(* Properties of the locator (checked under SpecLocate).                   *)
(***************************************************************************)
located == lpc = "done" /\ position # Nil
\* The line the returned position is on.
hitLine == Split(content)[position.Line + 1]
\* The 0-based numbers of the lines on which a structural pattern occurs.
structuralLines ==
    {n \in 0..(Len(Split(content)) - 1) :
        \E k \in 1..7 : Contains(Split(content)[n + 1], patterns(symbol)[k])}
\* The content and the request of the worked example, "func Foo() {}\n".
FuncFooContent ==
    <<"f","u","n","c"," ","F","o","o","(",")"," ","{","}", NL>>

\* C2: when the function-declaration pattern `func <symbol>(` matches the
\* returned line, the returned character is the column at which the symbol
\* name begins (five past the start of `func `), so that "Foo" in
\* "func Foo() {}\n" is located at line 0, character 5.
C2_FuncDeclReturnsNameColumn ==
    /\ (located /\ Contains(hitLine, patterns(symbol)[1]))
          => position.Character = Index(hitLine, patterns(symbol)[1]) + 5
    /\ (lpc = "done" /\ content = FuncFooContent /\ symbol = Foo)
          => position = Position(0, 5)

\* C3: if some line matches a structural pattern, the returned position is
\* on the first such line, even when an earlier line holds the name as a
\* plain substring; the plain match is used only when no line matches a
\* structural pattern.
C3_FirstStructuralLineWins ==
    (lpc = "done" /\ structuralLines # {})
        => /\ position # Nil
           /\ position.Line \in structuralLines
           /\ \A n \in structuralLines : position.Line <= n

\* C4: when several structural patterns match the returned line, the
\* position is that of the pattern that comes first in the fixed order
\* func, method receiver, type, var, const, :=, =, wherever in the line the
\* other matches start.
C4_PatternPriority ==
    located =>
        \A k \in 1..7 :
            ( /\ Contains(hitLine, patterns(symbol)[k])
              /\ \A j \in 1..(k - 1) : ~Contains(hitLine, patterns(symbol)[j]) )
                => position.Character = Index(hitLine, patterns(symbol)[k])

\* C4 witness: two patterns match the returned line and the one of lower
\* priority starts further left than the one returned.
C4_Witness ==
    /\ located
    /\ \E j, k \in 1..7 :
          /\ j < k
          /\ Contains(hitLine, patterns(symbol)[j])
          /\ Contains(hitLine, patterns(symbol)[k])
          /\ Index(hitLine, patterns(symbol)[k]) < Index(hitLine, patterns(symbol)[j])
          /\ position.Character = Index(hitLine, patterns(symbol)[j])

\* The returned position lies in the content: on one of its lines, at a
\* column of that line.
positionInContent ==
    /\ position.Line >= 0 /\ position.Line < Len(Split(content))
    /\ position.Character >= 0 /\ position.Character <= Len(hitLine)

\* C5 (as stated): not-found is returned if and only if the name occurs
\* nowhere in the content as a substring, names that are empty or span a
\* line break included; a returned position lies in the content.
C5_NilIffAbsentFromContent ==
    lpc = "done" =>
        /\ (position = Nil) <=> ~Contains(content, symbol)
        /\ position # Nil => positionInContent

\* C5 (amended): not-found is returned if and only if the name occurs as a
\* substring of no single line of the content; for a name without a line
\* break (the empty name included) that is exactly when the name occurs
\* nowhere in the content; a returned position lies in the content.
C5_NilIffAbsentFromEveryLine ==
    lpc = "done" =>
        /\ (position = Nil) <=>
               \A n \in 1..Len(Split(content)) : ~Contains(Split(content)[n], symbol)
        /\ ~Contains(symbol, <<NL>>) =>
               ((position = Nil) <=> ~Contains(content, symbol))
        /\ position # Nil => positionInContent

\* C5 witness: a name that spans a line break occurs in the content and is
\* reported not found.
C5_Witness ==
    /\ lpc = "done"
    /\ Contains(symbol, <<NL>>)
    /\ Contains(content, symbol)
    /\ position = Nil

(***************************************************************************)
(* Properties of GetCodeDefinitions (checked under Spec).                  *)
(***************************************************************************)
\* Entry i of the report is the entry of the i-th requested symbol, and is
\* a not-found line, an error line or a location block.
entryOfSymbol(i) ==
    /\ report[i].symbol = symbols[i]
    /\ report[i].kind \in {"NotFound", "Error", "Block"}

\* The call has returned.
returned == tpc = "idle" /\ ncalls > 0

\* C1: a call whose workspace initialization and file read succeed returns
\* without error, and its report holds exactly one entry per requested
\* symbol, in request order, each a not-found line, an error line or a
\* location block; a failed lookup of one symbol does not stop the others.
C1_EverySymbolReported ==
    /\ [](tpc = "loop" =>
            /\ Len(report) = idx - 1
            /\ idx <= Len(symbols) + 1
            /\ \A i \in 1..Len(report) : entryOfSymbol(i))
    /\ []((returned /\ ret = "ok") =>
            /\ Len(report) = Len(symbols)
            /\ \A i \in 1..Len(symbols) : entryOfSymbol(i))
    /\ [][tpc = "loop" =>
            \/ tpc' = "loop" /\ ret' = ret
            \/ tpc' = "idle" /\ ret' = "ok" /\ Len(report') = Len(symbols')]_vars

\* C1 witness: a returned report in which a symbol that was not found or
\* whose lookup failed is followed by the location block of the next symbol.
C1_Witness ==
    /\ returned /\ ret = "ok"
    /\ Len(symbols) = 2 /\ Len(report) = 2
    /\ report[1].kind \in {"NotFound", "Error"}
    /\ report[2].kind = "Block"

\* C6: within a call the client is driven in the order Initialize (when it
\* is not yet initialized), DidOpen, GoToDefinition: no GoToDefinition
\* before the call's DidOpen has succeeded, no DidOpen on a client whose
\* Initialize has not succeeded, and a failed Initialize or DidOpen ends the
\* call with an error and without any GoToDefinition.
C6_HandshakeOrder ==
    \A p \in 1..Len(calls) :
        LET e == calls[p]
        IN  /\ e.op = "GoToDefinition" =>
                 \E q \in 1..(p - 1) :
                    calls[q].op = "DidOpen" /\ calls[q].err = NoError
            /\ e.op = "DidOpen" =>
                 /\ e.was = "ok"
                 /\ \A q \in 1..(p - 1) : calls[q].op = "Initialize"
            /\ e.op = "Initialize" => p = 1
            /\ (e.op \in {"Initialize", "DidOpen"} /\ e.err # NoError) =>
                 /\ p = Len(calls)
                 /\ tpc = "idle"
                 /\ ret \notin {"none", "running", "ok"}

\* C6 witness: a call that initialized the client, opened the document and
\* then asked for a definition.
C6_Witness ==
    /\ Len(calls) >= 3
    /\ calls[1].op = "Initialize" /\ calls[1].err = NoError
    /\ calls[2].op = "DidOpen" /\ calls[2].err = NoError
    /\ calls[3].op = "GoToDefinition"

\* C7: over a sequence of calls on one GoplsTool, Initialize is invoked only
\* while the client is not initialized (never again once one Initialize has
\* succeeded, so never answered AlreadyInitializedError), and after an
\* Initialize that failed the handshake no further operation is attempted
\* on that client.
C7_InitializeSingleShot ==
    \A p \in 1..Len(calls) :
        /\ calls[p].op = "Initialize" =>
              /\ calls[p].err # "AlreadyInitializedError"
              /\ calls[p].was # "ok"
        /\ calls[p].was # "failed"

\* C15: for a symbol whose position was found, a definition request that
\* fails or returns an empty list puts a one-line failure entry for that
\* symbol in the report, never a location block and never an error of the
\* call; otherwise the location block describes the first Location of the
\* returned list and no other.
C15_FailureEntryOrFirstLocation ==
    [][(tpc = "loop" /\ Len(report') = Len(report) + 1) =>
          LET e == report'[Len(report')]
              d == lastDefinition'
          IN  /\ d.asked <=> findSymbolPosition(fileContent, symbols[idx]) # Nil
              /\ e.symbol = symbols[idx]
              /\ tpc' = "loop" /\ ret' = ret
              /\ (d.asked /\ (d.err # NoError \/ d.locations = <<>>)) =>
                    e.kind = "Error"
              /\ (d.asked /\ d.err = NoError /\ d.locations # <<>>) =>
                    LET first == d.locations[1]
                        c == getCodeAtLocation(first)
                    IN  /\ e.kind = "Block"
                        /\ e.uri = first.URI
                        /\ e.line = first.Range.Start.Line + 1
                        /\ e.character = first.Range.Start.Character + 1
                        /\ e.code = IF c.err = NoError THEN c.code ELSE <<>>]_vars

\* C15 witness: gopls answered with two locations and the block written is
\* that of the first; the entry before it is a failure line.
C15_Witness ==
    /\ tpc = "loop"
    /\ lastDefinition.asked
    /\ Len(lastDefinition.locations) = 2
    /\ Len(report) = 2
    /\ report[1].kind = "Error"
    /\ report[2].kind = "Block"
    /\ report[2].line = lastDefinition.locations[1].Range.Start.Line + 1
    /\ report[2].code # <<>>

\* C19: within one call the content announced in didOpen is the content
\* in which the symbol positions are located, also when another process
\* rewrites the file during the call.
C19_OpenedIsLocated ==
    tpc = "loop" => opened = fileContent

(***************************************************************************)
(* Properties of the dispatcher and the session (checked under             *)
(* SpecSession).                                                           *)
(***************************************************************************)
isRequest(m) == m.kind = "request"
\* The requests written, in the order their ids were assigned.
requests == SelectSeq(wire, isRequest)

\* C8: over all Send calls on one session, concurrent ones included, the
\* ids assigned start at 1, are pairwise distinct, strictly increase in
\* assignment order, and none is used again, also after its request was
\* resolved, timed out or cancelled.
C8_IdsStrictlyIncreasing ==
    /\ Len(requests) > 0 => requests[1].id = 1
    /\ \A i, j \in 1..Len(requests) :
          i < j => requests[i].id < requests[j].id
    /\ \A i \in 1..Len(requests) : requests[i].id < nextId
    /\ \A c, d \in Callers :
          (c # d /\ cpc[c] = "waiting" /\ cpc[d] = "waiting") => cid[c] # cid[d]

\* C8 witness: a request has timed out, a request sent after it is pending,
\* and both callers are blocked in Send.
C8_Witness ==
    /\ Len(requests) = 3
    /\ outcome[2] = "timeout"
    /\ 3 \in pending
    /\ \A c \in Callers : cpc[c] = "waiting"

\* C9: under every interleaving of Send, the read-loop, timeouts and
\* CancelAll, each pending waiter is resolved exactly once and its entry
\* removed exactly once; a response whose id has no pending waiter resolves
\* nothing, is dropped, and leaves the session as it was.
C9_ResolvedExactlyOnce ==
    /\ [](\A id \in Ids :
            /\ resolved[id] <= 1
            /\ (id \in pending) <=> (outcome[id] = "waiting")
            /\ (outcome[id] \in {"unused", "waiting"}) <=> (resolved[id] = 0))
    /\ [][\A id \in Ids :
            outcome[id] \notin {"unused", "waiting"} =>
                (outcome'[id] = outcome[id] /\ id \notin pending')]_vars
    /\ [][\A f \in inflight :
            (f \notin inflight' /\ f.id \notin pending) =>
                /\ UNCHANGED <<state, pending, outcome, resolved>>
                /\ f.id \in dropped']_vars

\* C9 witness: a request timed out, the response that came for it later was
\* dropped, and the session is still Ready.
C9_Witness ==
    \E id \in Ids :
        /\ outcome[id] = "timeout"
        /\ id \in dropped
        /\ state = "Ready"

\* The step leaves the session and the wire as they were.
sessionUntouched ==
    /\ state' = state
    /\ wire' = wire
    /\ pending' = pending
    /\ nextId' = nextId

\* C10: while the handshake has not completed (Uninitialized or
\* Initializing), DidOpen and Definition fail with NotReadyError; Initialize
\* on a Ready session fails with AlreadyInitializedError; either way the
\* state is unchanged and nothing is written to the subprocess.
C10_MisuseRefused ==
    /\ [](\A p \in 1..Len(wire) :
            wire[p].method \in {"didOpen", "definition"} =>
                \E q \in 1..(p - 1) : wire[q].method = "initialized")
    /\ [][\A c \in Callers :
            (cpc[c] = "idle" /\ cpc'[c] # "idle") =>
                /\ ( /\ cop'[c] \in {"didOpen", "definition"}
                     /\ state \in {"Uninitialized", "Initializing"} ) =>
                      /\ cpc'[c] = "returned"
                      /\ cres'[c] = "NotReadyError"
                      /\ sessionUntouched
                /\ (cop'[c] = "initialize" /\ state = "Ready") =>
                      /\ cpc'[c] = "returned"
                      /\ cres'[c] = "AlreadyInitializedError"
                      /\ sessionUntouched]_vars

\* C10 witness: one caller was refused DidOpen or Definition with
\* NotReadyError, another was refused Initialize with
\* AlreadyInitializedError.
C10_Witness ==
    \E c, d \in Callers :
        /\ cpc[c] = "returned" /\ cop[c] \in {"didOpen", "definition"}
        /\ cres[c] = "NotReadyError"
        /\ cpc[d] = "returned" /\ cop[d] = "initialize"
        /\ cres[d] = "AlreadyInitializedError"

\* C11: once Close has been called the state reaches Closed and never
\* leaves it; an operation invoked on a closing or closed session fails with
\* ClosedError without touching the session, an operation that was waiting
\* when the session closed fails with ClosedError too, a second Close is a
\* no-op, and every request pending at close time is resolved, so that no
\* caller of Send stays blocked.
C11_ClosedIsTerminal ==
    /\ [][state = "Closed" => state' = "Closed"]_vars
    /\ [][state = "Closing" => state' \in {"Closing", "Closed"}]_vars
    /\ [](state = "Closed" =>
            /\ pending = {}
            /\ \A c \in Callers :
                  cpc[c] = "waiting" => outcome[cid[c]] \notin {"unused", "waiting"})
    /\ [][\A c \in Callers :
            (cpc[c] = "idle" /\ cpc'[c] # "idle"
                /\ state \in {"Closing", "Closed"}) =>
                /\ cpc'[c] = "returned"
                /\ sessionUntouched
                /\ cres'[c] = IF cop'[c] = "close" THEN NoError ELSE "ClosedError"]_vars
    /\ [][\A c \in Callers :
            (cpc[c] = "waiting" /\ cpc'[c] = "returned"
                /\ cop[c] \in {"initialize", "definition"}
                /\ state \in {"Closing", "Closed"}
                /\ outcome[cid[c]] = "cancelled") =>
                cres'[c] = "ClosedError"]_vars
    /\ (state = "Closing") ~> (state = "Closed")
    /\ \A c \in Callers :
          (state \in {"Closing", "Closed"} /\ cpc[c] = "waiting")
              ~> (cpc[c] # "waiting")

\* C11 witness: a Close that sent shutdown and exit cancelled a definition
\* request that was pending, and the caller of that request got ClosedError.
C11_Witness ==
    /\ state = "Closed"
    /\ \E p \in 1..Len(wire) : wire[p].method = "exit"
    /\ \E c \in Callers :
          /\ cpc[c] = "returned" /\ cop[c] = "definition"
          /\ cid[c] \in Ids
          /\ outcome[cid[c]] = "cancelled"
          /\ cres[c] = "ClosedError"

\* C12: a request that gets no response within its timeout fails its Send
\* with TimeoutError and leaves the pending table; every other request stays
\* as it was, pending ones included, the state of the session is unchanged,
\* and a response that comes later for the timed-out id resolves nothing.
C12_TimeoutFreesOnlyItsSlot ==
    /\ [](\A id \in Ids : outcome[id] = "timeout" => id \notin pending)
    /\ [][\A id \in Ids :
            (outcome[id] = "waiting" /\ outcome'[id] = "timeout") =>
                /\ pending' = pending \ {id}
                /\ state' = state
                /\ \A j \in Ids \ {id} :
                      outcome'[j] = outcome[j] /\ resolved'[j] = resolved[j]]_vars
    /\ [][\A c \in Callers :
            (cpc[c] = "waiting" /\ cpc'[c] = "returned" /\ cop[c] = "definition"
                /\ outcome[cid[c]] = "timeout") =>
                /\ cres'[c] = "TimeoutError"
                /\ state' = state
                /\ pending' = pending]_vars
    /\ [][\A f \in inflight :
            (f \notin inflight' /\ f.id \in Ids /\ outcome[f.id] = "timeout") =>
                UNCHANGED <<state, pending, outcome, resolved>>]_vars

\* C12 witness: the Send of one caller has returned TimeoutError while the
\* request of the other caller is still pending on a Ready session, its
\* response on the way.
C12_Witness ==
    \E c, d \in Callers :
        /\ cpc[c] = "returned" /\ cop[c] = "definition"
        /\ cres[c] = "TimeoutError"
        /\ cpc[d] = "waiting" /\ cop[d] = "definition"
        /\ cid[d] \in pending
        /\ \E f \in inflight : f.id = cid[d]
        /\ state = "Ready"

(***************************************************************************)
(* GeminiClient.GenerateContent: the first model call, the loop over the   *)
(* parts of its response, the tools created for a function call, and the   *)
(* follow-up model call.                                                   *)
(***************************************************************************)
\* Largest number of parts in the first candidate of the first response.
MaxParts == 3

\* The kinds of genai.Part the type switches of the code tell apart.
PartKinds == {"Text", "FunctionCall", "Blob"}
PartLists == UNION {[1..n -> PartKinds] : n \in 1..MaxParts}

\* What GenerateContent returns: a text (of the first or of the follow-up
\* response) with a nil error, or an error; a panic leaves it by unwinding.
TextOf(response) == [kind |-> "text", of |-> response]
ErrorOf(why) == [kind |-> "error", of |-> why]
Panic == [kind |-> "panic", of |-> "index out of range"]

\* Mutant: one Close deferred for the variable goplsTool, which closes the
\* tool created last.
runLastDeferred(cl, df) ==
    [t \in 1..Len(cl) |-> IF Len(df) > 0 /\ t = df[Len(df)] THEN cl[t] + 1
                          ELSE cl[t]]

\* The deferred goplsTool.Close() calls run when the function is left: each
\* deferred call closes its tool.
runDeferred(cl, df) ==
    [t \in 1..Len(cl) |-> cl[t] + Cardinality({k \in 1..Len(df) : df[k] = t})]

\* GenerateContent is left with result, by return or by panic.
GenLeave(result) ==
    /\ gpc' = "returned"
    /\ gret' = result
    /\ closes' = runDeferred(closes, deferred)
    /\ deferred' = <<>>

\* gc.model.GenerateContent(ctx, genai.Text(prompt)) and the checks of its
\* response.
GenFirstCall ==
    /\ gpc = "idle"
    /\ \/ \E why \in {"failed to generate content",
                      "no response candidates returned",
                      "no content in response"} :
             /\ GenLeave(ErrorOf(why))
             /\ UNCHANGED <<parts, part>>
       \/ \E ps \in PartLists :
             /\ parts' = ps
             /\ part' = 1
             /\ gpc' = "loop"
             /\ UNCHANGED <<gret, closes, deferred>>
    /\ UNCHANGED <<created, followUps, handled, fname, toolFor>>

\* The loop over the parts: a part that is no function call is passed over.
GenSkipPart ==
    /\ gpc = "loop"
    /\ part <= Len(parts)
    /\ parts[part] # "FunctionCall"
    /\ part' = part + 1
    /\ UNCHANGED <<gpc, parts, created, deferred, closes, followUps, handled,
                   gret, fname, toolFor>>

\* The names a function call of the response may carry (funcCall.Name).
CallNames ==
    {"analyze_go_code", "get_directory_structure", "get_code_definitions"}

\* A function call, whatever its name: NewGoplsTool, and on success defer
\* goplsTool.Close().
GenNewTool ==
    /\ gpc = "loop"
    /\ part <= Len(parts)
    /\ parts[part] = "FunctionCall"
    /\ \E name \in CallNames :
          /\ fname' = name
          /\ \/ /\ GenLeave(ErrorOf("failed to create gopls tool"))
                /\ UNCHANGED <<created, toolFor>>
             \/ /\ created' = created + 1
                /\ toolFor' = Append(toolFor, name)
                /\ closes' = Append(closes, 0)
                /\ deferred' = Append(deferred, created + 1)
                /\ gpc' = "handle"
                /\ UNCHANGED gret
    /\ UNCHANGED <<parts, part, followUps, handled>>

\* handleFunctionCall: a result, an error, or a panic raised in the tool.
GenHandle ==
    /\ gpc = "handle"
    /\ \/ /\ handled' = "ok"
          /\ gpc' = "followUp"
          /\ UNCHANGED <<gret, closes, deferred>>
       \/ /\ handled' = "error"
          /\ GenLeave(ErrorOf("failed to handle function call"))
       \/ /\ handled' = "panic"
          /\ GenLeave(Panic)
    /\ UNCHANGED <<parts, part, created, followUps, fname, toolFor>>

\* The follow-up model call with the function response: it fails, or it
\* succeeds with a response whose first part is a text, or it succeeds with
\* a response that has no candidate, no content or a first part that is no
\* text, and then the loop goes on to the next part.
GenFollowUp ==
    /\ gpc = "followUp"
    /\ \/ /\ followUps' = Append(followUps, "error")
          /\ GenLeave(ErrorOf("failed to generate content after function call"))
          /\ UNCHANGED part
       \/ /\ followUps' = Append(followUps, "text")
          /\ GenLeave(TextOf("followUp"))
          /\ UNCHANGED part
       \/ /\ followUps' = Append(followUps, "noText")
          /\ part' = part + 1
          /\ gpc' = "loop"
          /\ UNCHANGED <<gret, closes, deferred>>
    /\ UNCHANGED <<parts, created, handled, fname, toolFor>>

\* After the loop: the first part of the first response, if it is a text.
GenAfterLoop ==
    /\ gpc = "loop"
    /\ part > Len(parts)
    /\ IF parts[1] = "Text"
       THEN GenLeave(TextOf("first"))
       ELSE GenLeave(ErrorOf("unexpected content type in response"))
    /\ UNCHANGED <<parts, part, created, followUps, handled, fname, toolFor>>

GenInit ==
    /\ GenIdle
    /\ ExIdle
    /\ HandleIdle
    /\ WalkIdle
    /\ LocIdle
    /\ ToolIdle
    /\ SessIdle
    /\ disk = Unreadable
    /\ state = "Uninitialized"

GenNext ==
    \/ GenFirstCall
    \/ GenSkipPart
    \/ GenNewTool
    \/ GenHandle
    \/ GenFollowUp
    \/ GenAfterLoop

SpecGenerate ==
    GenInit /\ [][GenNext /\ UNCHANGED <<locVars, state, toolVars, sessVars,
                                         exVars, handleVars, walkVars>>]_vars

(***************************************************************************)
(* Properties of GenerateContent (checked under SpecGenerate).             *)
(***************************************************************************)
\* C13: every GoplsTool created during a GenerateContent call is closed
\* exactly once by the time the call is left, on every exit path, and is
\* never closed more than once.
C13_EveryToolClosedOnce ==
    /\ Len(closes) = created
    /\ \A t \in 1..Len(closes) : closes[t] <= 1
    /\ gpc = "returned" => \A t \in 1..Len(closes) : closes[t] = 1

\* C13 witness: the call returned because a second tool could not be
\* created, and the tool created first was closed once.
C13_Witness ==
    /\ gpc = "returned"
    /\ gret = ErrorOf("failed to create gopls tool")
    /\ created = 1
    /\ closes = <<1>>

\* C14: when a function call was handled successfully and the follow-up
\* model call succeeded, GenerateContent returns the follow-up response,
\* never the text of the first response nor the unexpected-content-type
\* error; when the tool execution fails it returns an error without making
\* a follow-up call for it.
C14_FollowUpResponseReturned ==
    gpc = "returned" =>
        /\ (\E k \in 1..Len(followUps) : followUps[k] # "error") =>
              gret = TextOf("followUp")
        /\ handled = "error" =>
              /\ gret.kind = "error"
              /\ Len(followUps) = created - 1

\* C21: serving a get_directory_structure function call does not depend
\* on gopls: GenerateContent never fails such a call because a gopls client
\* could not be created, and no GoplsTool (and so no gopls subprocess) is
\* created for a function call that does not request code definitions.
C21_DirectoryCallNeedsNoGopls ==
    /\ (gpc = "returned" /\ gret = ErrorOf("failed to create gopls tool")) =>
          fname # "get_directory_structure"
    /\ \A t \in 1..Len(toolFor) : toolFor[t] # "get_directory_structure"

(***************************************************************************)
(* getCodeAtLocation applied to one Location and one target file.          *)
(***************************************************************************)
\* Largest line number of a Location handed to getCodeAtLocation.
MaxLine == 3

\* protocol.Location values of any kind: Line is an int, so a decoded
\* Location may hold a line past the end of the file, an end before its
\* start, or a negative line.
AnyLocations ==
    {Location(uri, s, e) : uri \in {FileURI, OtherURI},
                           s \in (-1)..MaxLine, e \in (-1)..MaxLine}

ExInit ==
    /\ xloc \in AnyLocations
    /\ xpc = "call"
    /\ xreads = {}
    /\ xres = Nil
    /\ disk \in DiskStates
    /\ GenIdle
    /\ HandleIdle
    /\ WalkIdle
    /\ LocIdle
    /\ ToolIdle
    /\ SessIdle
    /\ state = "Uninitialized"

Extract ==
    /\ xpc = "call"
    /\ xres' = getCodeAtLocation(xloc)
    /\ xreads' = IF ReadFile(xloc.URI).ok
                 THEN lineReads(Len(Split(ReadFile(xloc.URI).text)),
                                xloc.Range.Start.Line, xloc.Range.End.Line)
                 ELSE {}
    /\ xpc' = "done"
    /\ UNCHANGED xloc

ExNext == Extract

SpecExtract ==
    ExInit /\ [][ExNext /\ UNCHANGED <<locVars, state, toolVars, sessVars,
                                       genVars, handleVars, walkVars>>]_vars

(***************************************************************************)
(* Properties of getCodeAtLocation (checked under SpecExtract).            *)
(***************************************************************************)
\* The lines of the target file.
targetLines == Split(ReadFile(xloc.URI).text)

\* C16: for every Location, a negative line, a line past the end of the
\* file and an end before the start included, getCodeAtLocation reads no
\* line index outside the line array of the target file; and for a range
\* that lies in the file the code returned is the literal lines from the
\* start line through the end line inclusive.
C16_ReadsWithinFile ==
    (xpc = "done" /\ ReadFile(xloc.URI).ok) =>
        LET s == xloc.Range.Start.Line
            e == xloc.Range.End.Line
        IN  /\ \A i \in xreads : 0 <= i /\ i < Len(targetLines)
            /\ xres.err \in {NoError, "start line out of bounds"}
            /\ (0 <= s /\ s <= e /\ e < Len(targetLines)) =>
                  /\ xres.err = NoError
                  /\ Split(xres.code) = SubSeq(targetLines, s + 1, e + 1)

(***************************************************************************)
(* handleFunctionCall: the arguments of a genai.FunctionCall are values of *)
(* any JSON kind, read by type assertions.                                 *)
(***************************************************************************)
\* call.Args[key]: no such key, a string, a number (a float64, kept as a
\* count of halves so that 1.5 is a value), or an array of such values.
Absent == [kind |-> "absent"]
Str(v) == [kind |-> "string", val |-> v]
Num(h) == [kind |-> "number", halves |-> h]
Arr(es) == [kind |-> "array", elems |-> es]

\* v.(string), v.(float64) and v.([]interface{}): whether the assertion
\* holds.
isString(v) == v.kind = "string"
isNumber(v) == v.kind = "number"
isArray(v) == v.kind = "array"

\* int(depth) of a float64: the fraction is cut off, towards zero.
intOf(v) == IF v.halves >= 0 THEN v.halves \div 2 ELSE -((-v.halves) \div 2)

\* maxDepth := 3 // default
DefaultMaxDepth == 3

\* The depth get_directory_structure is served with: the default, replaced
\* only by a max_depth argument that is a number.
maxDepthOf(v) == IF isNumber(v) THEN intOf(v) ELSE DefaultMaxDepth

\* What handleFunctionCall comes to before a tool runs: an error, or the
\* one tool invocation it makes.
Invalid(why) == [tool |-> "none", err |-> why]
CodeDefinitionsOf(path, symbolsArg) ==
    [tool |-> "GetCodeDefinitions", path |-> path.val,
     symbols |-> [i \in 1..Len(symbolsArg.elems) |-> symbolsArg.elems[i].val]]
DirectoryStructureOf(path, depth) ==
    [tool |-> "GetDirectoryStructure", path |-> path.val, maxDepth |-> depth]

\* The conversion of the symbols array to a string slice: the error for
\* the first element that is no string, else the invocation.
symbolsThen(path, symbolsArg, whyNotArray) ==
    IF ~isArray(symbolsArg) THEN Invalid(whyNotArray)
    ELSE IF \E i \in 1..Len(symbolsArg.elems) : ~isString(symbolsArg.elems[i])
    THEN Invalid("symbol at index is not a string")
    ELSE CodeDefinitionsOf(path, symbolsArg)

handlePlan(c) ==
    CASE c.Name = "analyze_go_code" ->
           IF ~isString(c.Args.action)
           THEN Invalid("action parameter is required and must be a string")
           ELSE IF ~isString(c.Args.path)
           THEN Invalid("path parameter is required and must be a string")
           ELSE IF c.Args.action.val = "code_definitions"
           THEN symbolsThen(c.Args.path, c.Args.symbols,
                            "symbols parameter is required and must be an array for code_definitions action")
           ELSE Invalid("unknown action")
      [] c.Name = "get_directory_structure" ->
           IF ~isString(c.Args.path)
           THEN Invalid("path parameter is required and must be a string")
           ELSE DirectoryStructureOf(c.Args.path, maxDepthOf(c.Args.max_depth))
      [] c.Name = "get_code_definitions" ->
           IF ~isString(c.Args.file_path)
           THEN Invalid("file_path parameter is required and must be a string")
           ELSE symbolsThen(c.Args.file_path, c.Args.symbols,
                            "symbols parameter is required and must be an array")
      [] OTHER -> Invalid("unknown function")

\* The function calls the model may send.
FunctionNames ==
    {"analyze_go_code", "get_directory_structure", "get_code_definitions",
     "delete_everything"}
ActionArgs == {Absent, Num(2), Str("code_definitions"), Str("rename")}
PathArgs == {Absent, Num(2), Str("/p/a.go")}
SymbolsArgs ==
    {Absent, Str("Foo"), Arr(<<>>), Arr(<<Str("Foo")>>),
     Arr(<<Str("Foo"), Num(2)>>)}
DepthArgs == {Absent, Str("2"), Num(0), Num(3), Num(-2)}
FunctionCalls ==
    {[Name |-> n,
      Args |-> [action |-> a, path |-> p, file_path |-> f, symbols |-> y,
                max_depth |-> d]] :
        n \in FunctionNames, a \in ActionArgs, p \in PathArgs, f \in PathArgs,
        y \in SymbolsArgs, d \in DepthArgs}

HandleInit ==
    /\ call \in FunctionCalls
    /\ hpc = "call"
    /\ invoked = <<>>
    /\ hres = Nil
    /\ GenIdle
    /\ ExIdle
    /\ WalkIdle
    /\ LocIdle
    /\ ToolIdle
    /\ SessIdle
    /\ disk = Unreadable
    /\ state = "Uninitialized"

\* handleFunctionCall(call, dirTool, goplsTool, logger): the checks, then
\* the tool, whose result or error is returned.
Handle ==
    /\ hpc = "call"
    /\ LET plan == handlePlan(call)
       IN  IF plan.tool = "none"
           THEN /\ hres' = [err |-> plan.err]
                /\ invoked' = <<>>
           ELSE /\ invoked' = <<plan>>
                /\ \E ok \in BOOLEAN :
                      hres' = [err |-> IF ok THEN NoError
                                       ELSE "failed in " \o plan.tool]
    /\ hpc' = "done"
    /\ UNCHANGED call

HandleNext == Handle

SpecHandle ==
    HandleInit /\ [][HandleNext /\ UNCHANGED <<locVars, state, toolVars,
                                               sessVars, genVars, exVars,
                                               walkVars>>]_vars

(***************************************************************************)
(* Properties of handleFunctionCall (checked under SpecHandle).            *)
(***************************************************************************)
\* The symbols argument is an array of strings.
stringArray(v) ==
    isArray(v) /\ \A i \in 1..Len(v.elems) : isString(v.elems[i])

\* The inputs the claim lists as invalid.
listedInvalid(c) ==
    CASE c.Name = "analyze_go_code" ->
           \/ ~isString(c.Args.action)
           \/ ~isString(c.Args.path)
           \/ c.Args.action # Str("code_definitions")
           \/ ~stringArray(c.Args.symbols)
      [] c.Name = "get_directory_structure" -> ~isString(c.Args.path)
      [] c.Name = "get_code_definitions" ->
           ~isString(c.Args.file_path) \/ ~stringArray(c.Args.symbols)
      [] OTHER -> TRUE

\* Every argument of the function called is of the kind its parameter has;
\* max_depth, the one optional parameter, may be absent.
everyArgumentValid(c) ==
    /\ ~listedInvalid(c)
    /\ c.Name = "get_directory_structure" =>
          (c.Args.max_depth = Absent \/ isNumber(c.Args.max_depth))

\* C17: for every input the claim lists as invalid handleFunctionCall
\* returns an error and invokes no tool, and a tool is invoked only when
\* every argument of the call has passed validation.
C17_ToolOnlyAfterValidation ==
    hpc = "done" =>
        /\ listedInvalid(call) => (hres.err # NoError /\ invoked = <<>>)
        /\ invoked # <<>> => everyArgumentValid(call)

(***************************************************************************)
(* DirectoryStructureTool: GetDirectoryStructure and walkDirectory over a  *)
(* directory tree on disk.                                                 *)
(***************************************************************************)
\* Largest number of files and directories below the directory listed.
MaxEntries == 4

\* File names, as sequences of characters.
EntryNames == { <<"+","x">>, <<".","h">>, <<"a">> }

\* The byte of a character, for the characters the names are made of.
byteOf(c) ==
    CASE c = "+" -> 43
      [] c = "." -> 46
      [] c = "a" -> 97
      [] c = "h" -> 104
      [] c = "x" -> 120

\* s < t for Go strings: byte by byte, a proper prefix first.
RECURSIVE Less(_, _)
Less(s, t) ==
    IF Len(t) = 0 THEN FALSE
    ELSE IF Len(s) = 0 THEN TRUE
    ELSE IF byteOf(s[1]) # byteOf(t[1]) THEN byteOf(s[1]) < byteOf(t[1])
    ELSE Less(Tail(s), Tail(t))

\* os.ReadDir returns the entries of a directory sorted by file name.
ReadDirOrder ==
    CHOOSE q \in [1..Cardinality(EntryNames) -> EntryNames] :
        \A i, j \in 1..Cardinality(EntryNames) : i < j => Less(q[i], q[j])

\* strings.HasPrefix(s, p)
HasPrefix(s, p) == Len(s) >= Len(p) /\ SubSeq(s, 1, Len(p)) = p

\* A file or directory of the tree: its path below the directory listed
\* (the empty path is that directory itself), whether it is a directory,
\* and whether os.ReadDir can read it.
Node(path, dir, readable) == [path |-> path, dir |-> dir, readable |-> readable]
nodeAt(path) == CHOOSE e \in fs : e.path = path
exists(path) == \E e \in fs : e.path = path
parentOf(path) == SubSeq(path, 1, Len(path) - 1)

\* os.ReadDir(path): the names in the directory, sorted.
ReadDir(path) ==
    LET present(n) == exists(Append(path, n))
    IN  SelectSeq(ReadDirOrder, present)

\* The connectors and the prefix segments of the tree drawing, with the
\* box-drawing characters of the source written in ASCII: the connector of
\* an entry that has a successor, the closing connector, the vertical bar
\* with three spaces, and four spaces.
Tee == "|-- "
Corner == "L-- "
Pipe == "|   "
Blank == "    "

\* Mutant: the directory at maxDepth is not listed either.
pastDepthInclusive(currentDepth, depth) == currentDepth >= depth

\* if currentDepth > maxDepth { return nil }
pastDepth(currentDepth, depth) == currentDepth > depth

\* walkDirectory: the lines written to the builder (each with the path of
\* the entry it was written for) and whether os.ReadDir of path failed.
\* walkEntries is the loop over the entries from index i on.
RECURSIVE walkDirectory(_, _, _, _)
RECURSIVE walkEntries(_, _, _, _, _, _)
walkDirectory(path, prefix, currentDepth, depth) ==
    IF pastDepth(currentDepth, depth) THEN [err |-> FALSE, lines |-> <<>>]
    ELSE IF ~nodeAt(path).readable THEN [err |-> TRUE, lines |-> <<>>]
    ELSE [err |-> FALSE,
          lines |-> walkEntries(path, prefix, currentDepth, depth,
                                ReadDir(path), 1)]

walkEntries(path, prefix, currentDepth, depth, entries, i) ==
    IF i > Len(entries) THEN <<>>
    ELSE IF HasPrefix(entries[i], <<".">>)
    THEN walkEntries(path, prefix, currentDepth, depth, entries, i + 1)
    ELSE LET isLast == i = Len(entries)
             connector == IF isLast THEN Corner ELSE Tee
             newPrefix == prefix \o (IF isLast THEN <<Blank>> ELSE <<Pipe>>)
             subPath == Append(path, entries[i])
             isDir == nodeAt(subPath).dir
             line == [prefix |-> prefix, connector |-> connector,
                      name |-> entries[i], dir |-> isDir, path |-> subPath]
         IN  <<line>>
             \o (IF isDir
                 THEN walkDirectory(subPath, newPrefix, currentDepth + 1,
                                    depth).lines
                 ELSE <<>>)
             \o walkEntries(path, prefix, currentDepth, depth, entries, i + 1)

\* GetDirectoryStructure(path, maxDepth)
GetDirectoryStructure(depth) == walkDirectory(<<>>, <<>>, 0, depth)

WalkInit ==
    /\ fs \in {{Node(<<>>, TRUE, r)} : r \in BOOLEAN}
    /\ wpc = "build"
    /\ depthArg = Nil
    /\ maxDepth = 0
    /\ listing = <<>>
    /\ GenIdle
    /\ ExIdle
    /\ HandleIdle
    /\ LocIdle
    /\ ToolIdle
    /\ SessIdle
    /\ disk = Unreadable
    /\ state = "Uninitialized"

\* The tree before the call: a file or a directory is created in one of
\* its directories.
MkEntry ==
    /\ wpc = "build"
    /\ Cardinality(fs) <= MaxEntries
    /\ \E parent \in fs, n \in EntryNames, dir \in BOOLEAN, r \in BOOLEAN :
          /\ parent.dir
          /\ ~exists(Append(parent.path, n))
          /\ dir \/ r
          /\ fs' = fs \cup {Node(Append(parent.path, n), dir, r)}
    /\ UNCHANGED <<wpc, depthArg, maxDepth, listing>>

\* A get_directory_structure function call is served: the depth is taken
\* from its max_depth argument and the tree is listed.
ListDirectory ==
    /\ wpc = "build"
    /\ \E d \in DepthArgs :
          /\ depthArg' = d
          /\ maxDepth' = maxDepthOf(d)
          /\ listing' = GetDirectoryStructure(maxDepthOf(d))
    /\ wpc' = "done"
    /\ UNCHANGED fs

WalkNext ==
    \/ MkEntry
    \/ ListDirectory

SpecWalk ==
    WalkInit /\ [][WalkNext /\ UNCHANGED <<locVars, state, toolVars, sessVars,
                                           genVars, exVars, handleVars>>]_vars

(***************************************************************************)
(* Properties of GetDirectoryStructure (checked under SpecWalk).           *)
(***************************************************************************)
\* The depth of an entry: 0 for the direct children of the directory listed.
depthOf(path) == Len(path) - 1

\* The indexes of the lines printed for the entry at path.
linesFor(path) ==
    {i \in 1..Len(listing.lines) : listing.lines[i].path = path}

\* An entry that is to be listed: not deeper than maxDepth, neither itself
\* nor an ancestor hidden, and every directory above it readable.
eligible(e) ==
    /\ e.path # <<>>
    /\ depthOf(e.path) <= maxDepth
    /\ \A k \in 1..Len(e.path) : ~HasPrefix(e.path[k], <<".">>)
    /\ \A k \in 0..(Len(e.path) - 1) : nodeAt(SubSeq(e.path, 1, k)).readable

\* C18: GetDirectoryStructure ends for every tree, and lists no entry
\* deeper than maxDepth (direct children being depth 0) and each entry not
\* deeper than maxDepth that is not hidden and lies below readable,
\* non-hidden directories exactly once; a subdirectory that cannot be read
\* is passed over without failing the call; and when max_depth is absent
\* from the function call the depth used is 3.
C18_ListsExactlyToDepth ==
    wpc = "done" =>
        /\ depthArg = Absent => maxDepth = 3
        /\ nodeAt(<<>>).readable => ~listing.err
        /\ Len(listing.lines) <= Cardinality(fs) - 1
        /\ \A i \in 1..Len(listing.lines) :
              /\ exists(listing.lines[i].path)
              /\ depthOf(listing.lines[i].path) <= maxDepth
        /\ \A e \in fs :
              Cardinality(linesFor(e.path)) = IF eligible(e) THEN 1 ELSE 0

\* C18 witness: a listing that left out an entry only because it is deeper
\* than maxDepth, after a subdirectory that could not be read was listed
\* and passed over.
C18_Witness ==
    /\ wpc = "done"
    /\ ~listing.err
    /\ maxDepth >= 1
    /\ \E e \in fs :
          /\ depthOf(e.path) = maxDepth + 1
          /\ \A k \in 1..Len(e.path) : ~HasPrefix(e.path[k], <<".">>)
          /\ \A k \in 0..(Len(e.path) - 1) : nodeAt(SubSeq(e.path, 1, k)).readable
          /\ linesFor(e.path) = {}
    /\ \E d \in fs :
          /\ d.dir /\ ~d.readable /\ depthOf(d.path) < maxDepth
          /\ linesFor(d.path) # {}

\* The indexes of the lines printed for the entries of the directory at
\* path, in the order printed.
linesUnder(path) ==
    {i \in 1..Len(listing.lines) : parentOf(listing.lines[i].path) = path}

\* C20: in every directory with at least one listed entry, exactly one
\* listed entry has the closing connector and it is the last listed one,
\* all others have the connector of an entry with a successor; the children
\* of a listed directory that is not the last listed one carry the bar
\* segment after the prefix of their parent, the children of the last listed
\* directory four spaces.
C20_LastListedEntryCloses ==
    (wpc = "done" /\ ~listing.err) =>
        \A d \in fs :
            LET under == linesUnder(d.path)
                last == CHOOSE i \in under : \A j \in under : j <= i
            IN  (d.dir /\ under # {}) =>
                  /\ listing.lines[last].connector = Corner
                  /\ \A i \in under \ {last} : listing.lines[i].connector = Tee
                  /\ \A i \in under :
                        \A j \in linesUnder(listing.lines[i].path) :
                            listing.lines[j].prefix =
                                listing.lines[i].prefix
                                    \o (IF i = last THEN <<Blank>> ELSE <<Pipe>>)

=============================================================================
